---- MODULE Spec2Model ----
(***************************************************************************)
(* A model of the blueprint plugin (plugins/blueprint.cpp): the per-tile   *)
(* classifiers, the token cache, the sparse volume of every phase, the two *)
(* serializers and the run do_blueprint -> do_transform -> write_blueprint.*)
(*                                                                         *)
(* Strings are modelled as TLA+ strings: a token is the text the code      *)
(* returns, a file is the text the code streams into it, and the checks    *)
(* parse that text by its delimiters.  A TLA+ string literal cannot hold   *)
(* the backtick character (0x60), so BACKTICK stands for it.               *)
(***************************************************************************)
EXTENDS Integers, Sequences, FiniteSets, TLC

VARIABLES
    pc,            \* position of the control flow of do_blueprint
    opts,          \* blueprint_options of the current run
    start,         \* df::coord start of do_transform
    end,           \* df::coord end of do_transform (exclusive, clamped)
    processors,    \* vector<blueprint_processor>: <<[phase, mapdata]>>
    pos,           \* the scan loop variables x, y, z
    pi,            \* index of the next processor to run on the tile pos
    ctx,           \* tile_context of the tile pos: [pretty, b]
    lookups,       \* Buildings::findAtTile calls made for the tile pos
    _cache,        \* the static std::set<string> of cache()
    dir_created,   \* whether create_output_dir made the output directory
    output_files,  \* std::map<string, ofstream*>: name -> [is_open]
    disk,          \* the files of the file system: name -> text
    opened,        \* the names passed to new ofstream, in order
    wi,            \* index of the next processor to write
    filenames,     \* vector<string> filenames, the out-parameter
    ok,            \* the return value of do_blueprint: "none", "true", "false"
    toks,          \* classifier unit: the token of every classified tile
    trapB,         \* classifier unit: a second trap
    tokA,          \* classifier unit: the token of the trap ctx.b
    tokB,          \* classifier unit: the token of the trap trapB
    nodes,         \* cache unit: the nodes of _cache, address -> text
    refs,          \* cache unit: <<text, pointer>> returned since the clear
    stale          \* cache unit: <<text, pointer>> returned before the clear

vars == <<pc, opts, start, end, processors, pos, pi, ctx, lookups, _cache,
          dir_created, output_files, disk, opened, wi, filenames, ok,
          toks, trapB, nodes, refs, stale, tokA, tokB>>

(***************************************************************************)
(* Bounds of the model.                                                    *)
(***************************************************************************)
x_count == 3
y_count == 2
z_count == 11
MaxWidth == 2
MaxHeight == 2
MaxDepth == 5
MaxFoot == 3

(***************************************************************************)
(* Text.                                                                   *)
(***************************************************************************)
\* a const char * that is NULL
NULL == "<NULL>"

\* the character 0x60
BACKTICK == "'"

\* std::endl
endl == "\n"

Abs(n) == IF n < 0 THEN -n ELSE n

RECURSIVE SplitRange(_, _, _, _)
\* the pieces of the characters lo..hi of s between the occurrences of the
\* character d: those of the two halves, the last piece of the first half
\* joined to the first piece of the second
SplitRange(s, d, lo, hi) ==
    IF lo > hi THEN <<"">>
    ELSE IF lo = hi
    THEN IF SubSeq(s, lo, lo) = d THEN <<"", "">> ELSE <<SubSeq(s, lo, lo)>>
    ELSE LET mid == (lo + hi) \div 2
             L == SplitRange(s, d, lo, mid)
             R == SplitRange(s, d, mid + 1, hi)
         IN  SubSeq(L, 1, Len(L) - 1) \o <<L[Len(L)] \o R[1]>> \o Tail(R)

\* the pieces of s between the occurrences of the character d
Split(s, d) == SplitRange(s, d, 1, Len(s))

\* the lines of a text in which every line ends with a newline
Lines(s) == LET p == Split(s, endl) IN SubSeq(p, 1, Len(p) - 1)

RECURSIVE CountChar(_, _, _)
\* the number of occurrences of the character d in s from index i on
CountChar(s, d, i) ==
    IF i > Len(s) THEN 0
    ELSE (IF SubSeq(s, i, i) = d THEN 1 ELSE 0) + CountChar(s, d, i + 1)

RECURSIVE Repeat(_, _)
Repeat(s, n) == IF n <= 0 THEN "" ELSE s \o Repeat(s, n - 1)

(***************************************************************************)
(* The world: df::global::world->map and the world-query service.          *)
(***************************************************************************)
Coord(x, y, z) == [x |-> x, y |-> y, z |-> z]

\* a df::building *, with the fields of its subclasses that the code reads
NoBuilding ==
    [type |-> "NULL", x1 |-> 0, y1 |-> 0, x2 |-> 0, y2 |-> 0, z |-> 0,
     centerx |-> 0, centery |-> 0, is_room |-> FALSE, subtype |-> "NONE",
     is_vertical |-> FALSE, use_dump |-> FALSE, dump_x_shift |-> 0,
     dump_y_shift |-> 0, friction |-> 0, flags |-> {}]

Building(type, x1, y1, x2, y2, z, cx, cy, subtype) ==
    [NoBuilding EXCEPT !.type = type, !.x1 = x1, !.y1 = y1, !.x2 = x2,
                       !.y2 = y2, !.z = z, !.centerx = cx, !.centery = cy,
                       !.subtype = subtype]

\* df::global::world->buildings of the modelled fortress
WorldBuildings ==
    { Building("FarmPlot", 0, 0, 1, 0, 10, 0, 0, "NONE"),
      [Building("Trap", 2, 1, 2, 1, 10, 2, 1, "TrackStop")
          EXCEPT !.use_dump = TRUE, !.dump_y_shift = 1, !.friction = 500],
      [Building("Stockpile", 1, 0, 1, 1, 9, 1, 0, "NONE")
          EXCEPT !.flags = {"food"}],
      Building("ScrewPump", 2, 0, 2, 1, 9, 2, 0, "FromNorth"),
      [Building("Table", 1, 1, 1, 1, 7, 1, 1, "NONE") EXCEPT !.is_room = TRUE],
      [Building("Bed", 2, 1, 2, 1, 1, 2, 1, "NONE") EXCEPT !.is_room = TRUE],
      [Building("Stockpile", 0, 0, 1, 0, 1, 0, 0, "NONE")
          EXCEPT !.flags = {"food", "wood"}],
      Building("Slab", 0, 1, 0, 1, 1, 0, 1, "NONE") }

InFootprint(b, p) ==
    /\ b.x1 <= p.x /\ p.x <= b.x2
    /\ b.y1 <= p.y /\ p.y <= b.y2
    /\ b.z = p.z

\* Buildings::findAtTile
findAtTile(p) ==
    IF \E b \in WorldBuildings : InFootprint(b, p)
    THEN CHOOSE b \in WorldBuildings : InFootprint(b, p)
    ELSE NoBuilding

\* tileShape(*Maps::getTileType(pos)) of the modelled fortress
ShapeAt(p) ==
    CASE p.z % 4 = 0 -> "WALL"
      [] p.z % 4 = 1 -> IF p.x = 0 THEN "WALL"
                        ELSE IF p.y = 0 THEN "STAIR_UP" ELSE "EMPTY"
      [] p.z % 4 = 2 -> "FLOOR"
      [] OTHER       -> IF (p.x + p.y) % 2 = 1 THEN "RAMP" ELSE "WALL"

\* Maps::isValidTilePos
isValidTilePos(p) ==
    /\ 0 <= p.x /\ p.x < x_count
    /\ 0 <= p.y /\ p.y < y_count
    /\ 0 <= p.z /\ p.z < z_count

(***************************************************************************)
(* The token cache.                                                        *)
(***************************************************************************)
\* cache(str): the set after the call; the call returns the text str
cache(str, c) == IF str = NULL THEN {} ELSE c \cup {str}

(***************************************************************************)
(* The classifiers.                                                        *)
(***************************************************************************)
get_tile_dig(p, cx) ==
    LET shape == ShapeAt(p) IN
    CASE shape \in {"EMPTY", "RAMP_TOP"} -> "h"
      [] shape \in {"FLOOR", "BOULDER", "PEBBLES", "BROOK_TOP"} -> "d"
      [] shape = "FORTIFICATION" -> "F"
      [] shape = "STAIR_UP" -> "u"
      [] shape = "STAIR_DOWN" -> "j"
      [] shape = "STAIR_UPDOWN" -> "i"
      [] shape = "RAMP" -> "r"
      [] OTHER -> NULL

get_building_size(b) == <<b.x2 - b.x1 + 1, b.y2 - b.y1 + 1>>

if_pretty_inverted(cx, c) == IF cx.pretty THEN "" ELSE c

if_pretty(cx, c) == IF cx.pretty THEN c ELSE ""

do_block_building_always(cx, s, at_target_pos, has_add_size, add_size) ==
    [str |-> s, add_size |-> has_add_size \/ add_size]

\* has_add_size: whether the caller passes the add_size pointer
do_block_building(cx, s, at_target_pos, has_add_size, add_size) ==
    IF ~at_target_pos
    THEN [str |-> if_pretty(cx, BACKTICK), add_size |-> add_size]
    ELSE [str |-> s, add_size |-> has_add_size \/ add_size]

get_bridge_str(b) ==
    CASE b.subtype = "Retracting" -> "gs"
      [] b.subtype = "Left" -> "ga"
      [] b.subtype = "Right" -> "gd"
      [] b.subtype = "Up" -> "gw"
      [] b.subtype = "Down" -> "gx"
      [] OTHER -> "g"

get_siege_str(b) == IF b.subtype = "Catapult" THEN "ic" ELSE "ib"

get_workshop_str(b) ==
    CASE b.subtype = "Leatherworks" -> "we"
      [] b.subtype = "Quern" -> "wq"
      [] b.subtype = "Millstone" -> "wM"
      [] b.subtype = "Loom" -> "wo"
      [] b.subtype = "Clothiers" -> "wk"
      [] b.subtype = "Bowyers" -> "wb"
      [] b.subtype = "Carpenters" -> "wc"
      [] b.subtype = "MetalsmithsForge" -> "wf"
      [] b.subtype = "MagmaForge" -> "wv"
      [] b.subtype = "Jewelers" -> "wj"
      [] b.subtype = "Masons" -> "wm"
      [] b.subtype = "Butchers" -> "wu"
      [] b.subtype = "Tanners" -> "wn"
      [] b.subtype = "Craftsdwarfs" -> "wr"
      [] b.subtype = "Siege" -> "ws"
      [] b.subtype = "Mechanics" -> "wt"
      [] b.subtype = "Still" -> "wl"
      [] b.subtype = "Farmers" -> "ww"
      [] b.subtype = "Kitchen" -> "wz"
      [] b.subtype = "Fishery" -> "wh"
      [] b.subtype = "Ashery" -> "wy"
      [] b.subtype = "Dyers" -> "wd"
      [] b.subtype = "Kennels" -> "k"
      [] OTHER -> "~"

get_furnace_str(b) ==
    CASE b.subtype = "WoodFurnace" -> "ew"
      [] b.subtype = "Smelter" -> "es"
      [] b.subtype = "GlassFurnace" -> "eg"
      [] b.subtype = "Kiln" -> "ek"
      [] b.subtype = "MagmaSmelter" -> "el"
      [] b.subtype = "MagmaGlassFurnace" -> "ea"
      [] b.subtype = "MagmaKiln" -> "en"
      [] OTHER -> "~"

TrackDirs ==
    {"N", "S", "E", "W", "NS", "NE", "NW", "SE", "SW", "EW",
     "NSE", "NSW", "NEW", "SEW", "NSEW"}

get_construction_str(b) ==
    CASE b.subtype = "Fortification" -> "CF"
      [] b.subtype = "Wall" -> "CW"
      [] b.subtype = "Floor" -> "Cf"
      [] b.subtype = "UpStair" -> "Cu"
      [] b.subtype = "DownStair" -> "Cj"
      [] b.subtype = "UpDownStair" -> "Cx"
      [] b.subtype = "Ramp" -> "Cr"
      [] \E d \in TrackDirs : b.subtype = "Track" \o d ->
            "track" \o (CHOOSE d \in TrackDirs : b.subtype = "Track" \o d)
      [] \E d \in TrackDirs : b.subtype = "TrackRamp" \o d ->
            "trackramp"
                \o (CHOOSE d \in TrackDirs : b.subtype = "TrackRamp" \o d)
      [] OTHER -> "~"

TrackStopDump_without_y(b) ==
    IF b.use_dump
    THEN IF b.dump_x_shift = 0 THEN "d"
         ELSE "ddd" \o (IF b.dump_x_shift < 0 THEN "d" ELSE "")
    ELSE ""

\* the dump code of a track stop: the text streamed for trap->use_dump
TrackStopDump(b) ==
    IF b.use_dump
    THEN IF b.dump_x_shift = 0
         THEN "d" \o (IF b.dump_y_shift > 0 THEN "d" ELSE "")
         ELSE "ddd" \o (IF b.dump_x_shift < 0 THEN "d" ELSE "")
    ELSE ""

TrackStopFriction_ascending(friction) ==
    CASE friction = 10 -> "a"
      [] friction = 50 -> "aa"
      [] friction = 500 -> "aaa"
      [] friction = 10000 -> "aaaa"
      [] OTHER -> ""

\* the switch on trap->friction, whose cases fall through
TrackStopFriction(friction) ==
    CASE friction = 10 -> "a" \o "a" \o "a" \o "a"
      [] friction = 50 -> "a" \o "a" \o "a"
      [] friction = 500 -> "a" \o "a"
      [] friction = 10000 -> "a"
      [] OTHER -> ""

\* returns [str, c]: the token and the cache after the call
get_trap_str(b, c) ==
    CASE b.subtype = "StoneFallTrap" -> [str |-> "Ts", c |-> c]
      [] b.subtype = "WeaponTrap" -> [str |-> "Tw", c |-> c]
      [] b.subtype = "Lever" -> [str |-> "Tl", c |-> c]
      [] b.subtype = "PressurePlate" -> [str |-> "Tp", c |-> c]
      [] b.subtype = "CageTrap" -> [str |-> "Tc", c |-> c]
      [] b.subtype = "TrackStop" ->
            LET buf == "CS" \o TrackStopDump(b)
                            \o TrackStopFriction(b.friction)
            IN  [str |-> buf, c |-> cache(buf, c)]
      [] OTHER -> [str |-> "~", c |-> c]

get_screw_pump_str(b) ==
    CASE b.subtype = "FromNorth" -> "Msu"
      [] b.subtype = "FromEast" -> "Msk"
      [] b.subtype = "FromSouth" -> "Msm"
      [] b.subtype = "FromWest" -> "Msh"
      [] OTHER -> "~"

get_water_wheel_str(b) == IF b.is_vertical THEN "Mw" ELSE "Mws"

get_axle_str(b) == IF b.is_vertical THEN "Mhs" ELSE "Mh"

get_roller_str(b) ==
    CASE b.subtype = "FromNorth" -> "Mr"
      [] b.subtype = "FromEast" -> "Mrs"
      [] b.subtype = "FromSouth" -> "Mrss"
      [] b.subtype = "FromWest" -> "Mrsss"
      [] OTHER -> "~"

FixedBuildKeys_no_fallback(type) ==
    CASE type = "Armorstand" -> "a"
      [] type = "Bed" -> "b"
      [] type = "Chair" -> "c"
      [] type = "Door" -> "d"
      [] type = "Table" -> "t"
      [] type = "Support" -> "S"
      [] type = "NestBox" -> "N"
      [] type = "GrateWall" -> "W"
      [] type = "GrateFloor" -> "G"
      [] type = "BarsVertical" -> "B"
      [] OTHER -> NULL

\* the cases of get_build_keys that return a fixed text
FixedBuildKeys(type) ==
    CASE type = "Armorstand" -> "a"
      [] type = "Bed" -> "b"
      [] type = "Chair" -> "c"
      [] type = "Door" -> "d"
      [] type = "Floodgate" -> "x"
      [] type = "Cabinet" -> "f"
      [] type = "Box" -> "h"
      [] type = "Weaponrack" -> "r"
      [] type = "Statue" -> "s"
      [] type = "Table" -> "t"
      [] type = "Well" -> "l"
      [] type = "WindowGlass" -> "y"
      [] type = "WindowGem" -> "Y"
      [] type = "AnimalTrap" -> "m"
      [] type = "Chain" -> "v"
      [] type = "Cage" -> "j"
      [] type = "GearAssembly" -> "Mg"
      [] type = "AxleVertical" -> "Mv"
      [] type = "Support" -> "S"
      [] type = "ArcheryTarget" -> "A"
      [] type = "TractionBench" -> "R"
      [] type = "Hatch" -> "H"
      [] type = "Slab" -> "~"
      [] type = "NestBox" -> "N"
      [] type = "Hive" -> "~"
      [] type = "GrateWall" -> "W"
      [] type = "GrateFloor" -> "G"
      [] type = "BarsVertical" -> "B"
      [] type = "BarsFloor" -> "~"
      [] OTHER -> "~"

\* returns [str, add_size, c]
get_build_keys(p, cx, add_size, c) ==
    LET b == cx.b
        at_nw_corner == p.x = b.x1 /\ p.y = b.y1
        at_se_corner == p.x = b.x2 /\ p.y = b.y2
        at_center == p.x = b.centerx /\ p.y = b.centery
        Block(s, at, has_add_size) ==
            LET r == do_block_building(cx, s, at, has_add_size, add_size)
            IN  [str |-> r.str, add_size |-> r.add_size, c |-> c]
    IN
    CASE b.type = "FarmPlot" -> Block("p", at_nw_corner, TRUE)
      [] b.type = "RoadPaved" -> Block("o", at_nw_corner, TRUE)
      [] b.type = "RoadDirt" -> Block("O", at_nw_corner, TRUE)
      [] b.type = "Bridge" -> Block(get_bridge_str(b), at_nw_corner, TRUE)
      [] b.type = "SiegeEngine" -> Block(get_siege_str(b), at_center, FALSE)
      [] b.type = "Workshop" -> Block(get_workshop_str(b), at_center, FALSE)
      [] b.type = "Furnace" -> Block(get_furnace_str(b), at_center, FALSE)
      [] b.type = "Construction" ->
            [str |-> get_construction_str(b), add_size |-> add_size, c |-> c]
      [] b.type = "Shop" -> Block("z", at_center, FALSE)
      [] b.type = "TradeDepot" -> Block("D", at_center, FALSE)
      [] b.type = "Trap" ->
            LET r == get_trap_str(b, c)
            IN  [str |-> r.str, add_size |-> add_size, c |-> r.c]
      [] b.type = "ScrewPump" ->
            Block(get_screw_pump_str(b), at_se_corner, FALSE)
      [] b.type = "WaterWheel" ->
            Block(get_water_wheel_str(b), at_center, FALSE)
      [] b.type = "Windmill" -> Block("Mm", at_center, FALSE)
      [] b.type = "AxleHorizontal" ->
            Block(get_axle_str(b), at_nw_corner, TRUE)
      [] b.type = "Rollers" -> Block(get_roller_str(b), at_nw_corner, TRUE)
      [] OTHER ->
            [str |-> FixedBuildKeys(b.type), add_size |-> add_size, c |-> c]

\* returns [str, c]
add_expansion_syntax(cx, keys, c) ==
    IF keys = NULL THEN [str |-> "~", c |-> c]
    ELSE LET size == get_building_size(cx.b)
             s == keys \o "(" \o ToString(size[1]) \o "x"
                       \o ToString(size[2]) \o ")"
         IN  [str |-> s, c |-> cache(s, c)]

\* returns [str, c]
get_tile_build(p, cx, c) ==
    IF cx.b = NoBuilding \/ cx.b.type = "Stockpile"
    THEN [str |-> NULL, c |-> c]
    ELSE LET r == get_build_keys(p, cx, FALSE, c) IN
         IF ~r.add_size THEN [str |-> r.str, c |-> r.c]
         ELSE add_expansion_syntax(cx, r.str, r.c)

get_place_keys_guess(cx) ==
    IF cx.b.type # "Stockpile" THEN NULL
    ELSE IF "food" \in cx.b.flags THEN "f"
    ELSE IF "wood" \in cx.b.flags THEN "w"
    ELSE IF cx.b.flags = {"animals"} THEN "a"
    ELSE NULL

get_place_keys(cx) ==
    IF cx.b.type # "Stockpile" THEN NULL
    ELSE CASE cx.b.flags = {"animals"} -> "a"
           [] cx.b.flags = {"food"} -> "f"
           [] cx.b.flags = {"furniture"} -> "u"
           [] cx.b.flags = {"corpses"} -> "y"
           [] cx.b.flags = {"refuse"} -> "r"
           [] cx.b.flags = {"wood"} -> "w"
           [] cx.b.flags = {"stone"} -> "s"
           [] cx.b.flags = {"gems"} -> "e"
           [] cx.b.flags = {"bars_blocks"} -> "b"
           [] cx.b.flags = {"cloth"} -> "h"
           [] cx.b.flags = {"leather"} -> "l"
           [] cx.b.flags = {"ammo"} -> "z"
           [] cx.b.flags = {"coins"} -> "n"
           [] cx.b.flags = {"finished_goods"} -> "g"
           [] cx.b.flags = {"weapons"} -> "p"
           [] cx.b.flags = {"armor"} -> "d"
           [] OTHER -> NULL

\* returns [str, c]
get_tile_place(p, cx, c) ==
    IF cx.b = NoBuilding \/ cx.b.type # "Stockpile"
    THEN [str |-> NULL, c |-> c]
    ELSE IF cx.b.x1 # p.x \/ cx.b.y1 # p.y
         THEN [str |-> if_pretty(cx, BACKTICK), c |-> c]
         ELSE add_expansion_syntax(cx, get_place_keys(cx), c)

get_tile_query(p, cx) ==
    IF cx.b = NoBuilding \/ ~cx.b.is_room THEN NULL ELSE "r+"

\* processor.get_tile of the processor of a phase; returns [str, c]
get_tile(phase, p, cx, c) ==
    CASE phase = "dig" -> [str |-> get_tile_dig(p, cx), c |-> c]
      [] phase = "build" -> get_tile_build(p, cx, c)
      [] phase = "place" -> get_tile_place(p, cx, c)
      [] phase = "query" -> [str |-> get_tile_query(p, cx), c |-> c]

\* whether the processor of a phase has an init_ctx (ensure_building)
has_init_ctx(phase) == phase # "dig"

\* ensure_building: returns [b, looked_up]
ensure_building(p, cx) ==
    IF cx.b # NoBuilding THEN [b |-> cx.b, looked_up |-> 0]
    ELSE [b |-> findAtTile(p), looked_up |-> 1]

(***************************************************************************)
(* The sparse volume: bp_volume = map<z, map<y, map<x, const char *>>>,    *)
(* a function of functions whose domains are the keys.                     *)
(***************************************************************************)
\* NEW_AREA, NEW_ROW and an empty bp_volume
EmptyMap == <<>>

\* the keys of a std::map in the order its iterator visits them
RECURSIVE SortedKeys(_)
SortedKeys(S) ==
    IF S = {} THEN <<>>
    ELSE LET m == CHOOSE k \in S : \A j \in S : k <= j
         IN  <<m>> \o SortedKeys(S \ {m})

record_raw_z(mapdata, p, st, tile_str) ==
    LET k == p.z - st.z
        y == p.y - st.y
        x == p.x - st.x
        area == IF k \in DOMAIN mapdata THEN mapdata[k] ELSE EmptyMap
        row == IF y \in DOMAIN area THEN area[y] ELSE EmptyMap
    IN  (k :> ((y :> ((x :> tile_str) @@ row)) @@ area)) @@ mapdata

record_with_row_ahead(mapdata, p, st, tile_str) ==
    LET k == Abs(p.z - st.z)
        y == p.y - st.y
        x == p.x - st.x
        area == IF k \in DOMAIN mapdata THEN mapdata[k] ELSE EmptyMap
        row == IF y \in DOMAIN area THEN area[y] ELSE EmptyMap
        ahead == IF y + 1 \in DOMAIN area THEN area ELSE (y + 1 :> EmptyMap) @@ area
    IN  (k :> ((y :> ((x :> tile_str) @@ row)) @@ ahead)) @@ mapdata

\* mapdata.emplace(abs(z - start.z), NEW_AREA), .emplace(y - start.y,
\* NEW_ROW) and row[x - start.x] = tile_str, for the tile p and start st
record(mapdata, p, st, tile_str) ==
    LET k == Abs(p.z - st.z)
        y == p.y - st.y
        x == p.x - st.x
        area == IF k \in DOMAIN mapdata THEN mapdata[k] ELSE EmptyMap
        row == IF y \in DOMAIN area THEN area[y] ELSE EmptyMap
    IN  (k :> ((y :> ((x :> tile_str) @@ row)) @@ area)) @@ mapdata

(***************************************************************************)
(* The serializers.  Each returns the text it streams into the file.       *)
(***************************************************************************)
z_key(o) == IF o.depth > 0 THEN "#<" ELSE "#>"

RECURSIVE MinimalTiles(_, _, _, _)
MinimalTiles(row, keys, i, xprev) ==
    IF i > Len(keys) THEN ""
    ELSE Repeat(",", keys[i] - xprev) \o row[keys[i]]
            \o MinimalTiles(row, keys, i + 1,
                            IF xprev < keys[i] THEN keys[i] ELSE xprev)

RECURSIVE MinimalRows(_, _, _, _)
MinimalRows(area, keys, i, yprev) ==
    IF i > Len(keys) THEN ""
    ELSE Repeat(endl, keys[i] - yprev)
            \o MinimalTiles(area[keys[i]],
                            SortedKeys(DOMAIN area[keys[i]]), 1, 0)
            \o MinimalRows(area, keys, i + 1,
                           IF yprev < keys[i] THEN keys[i] ELSE yprev)

RECURSIVE MinimalAreas(_, _, _, _, _)
MinimalAreas(o, mapdata, keys, i, zprev) ==
    IF i > Len(keys) THEN ""
    ELSE Repeat(z_key(o) \o endl, keys[i] - zprev)
            \o MinimalRows(mapdata[keys[i]],
                           SortedKeys(DOMAIN mapdata[keys[i]]), 1, 0)
            \o endl
            \o MinimalAreas(o, mapdata, keys, i + 1,
                            IF zprev < keys[i] THEN keys[i] ELSE zprev)

write_minimal_from_first_layer(o, mapdata) ==
    IF DOMAIN mapdata = {} THEN ""
    ELSE LET keys == SortedKeys(DOMAIN mapdata)
         IN  MinimalAreas(o, mapdata, keys, 1, keys[1])

write_minimal(o, mapdata) ==
    IF DOMAIN mapdata = {} THEN ""
    ELSE MinimalAreas(o, mapdata, SortedKeys(DOMAIN mapdata), 1, 0)

RECURSIVE PrettyCells(_, _, _, _)
\* row_there: whether the row pointer is not NULL
PrettyCells(o, row_there, row, x) ==
    IF x >= o.width THEN ""
    ELSE (IF row_there /\ x \in DOMAIN row THEN row[x] ELSE " ") \o ","
            \o PrettyCells(o, row_there, row, x + 1)

RECURSIVE PrettyRows(_, _, _, _)
PrettyRows(o, area_there, area, y) ==
    IF y >= o.height THEN ""
    ELSE LET row_there == area_there /\ y \in DOMAIN area
         IN  PrettyCells(o, row_there,
                         IF row_there THEN area[y] ELSE EmptyMap, 0)
                \o "#" \o endl
                \o PrettyRows(o, area_there, area, y + 1)

RECURSIVE PrettyAreas(_, _, _)
PrettyAreas(o, mapdata, z) ==
    LET absdepth == Abs(o.depth) IN
    IF z >= absdepth THEN ""
    ELSE LET area_there == z \in DOMAIN mapdata
         IN  PrettyRows(o, area_there,
                        IF area_there THEN mapdata[z] ELSE EmptyMap, 0)
                \o (IF z < absdepth - 1 THEN z_key(o) \o endl ELSE "")
                \o PrettyAreas(o, mapdata, z + 1)

write_pretty_recorded(o, mapdata) ==
    LET clipped == [o EXCEPT !.depth = IF DOMAIN mapdata = {} THEN 0
                                       ELSE Cardinality(DOMAIN mapdata)]
    IN  PrettyAreas(clipped, mapdata, 0)

write_pretty(o, mapdata) == PrettyAreas(o, mapdata, 0)

get_modeline(phase) == "#" \o phase \o " label(" \o phase \o ")"

(***************************************************************************)
(* The inputs of a run.                                                    *)
(***************************************************************************)
\* df::coord of an unset options.start
UnsetCoord == Coord(-30000, -30000, -30000)

\* the start coordinates given on the command line
StartChoices ==
    { Coord(0, 0, z_count - 1), Coord(x_count - 1, y_count - 1, 1),
      Coord(x_count, 0, 0), UnsetCoord }

\* the map cursor: absent, or on a tile
CursorChoices == { UnsetCoord, Coord(1, 0, z_count - 2) }

DepthChoices == { -MaxDepth, -1, 1, 2 }

PhaseChoices ==
    { f \in [{"auto_phase", "dig", "build", "place", "query"} -> BOOLEAN] :
        f["auto_phase"] => ~(f["dig"] \/ f["build"] \/ f["place"] \/ f["query"]) }

\* blueprint_options as constructed
DefaultOptions ==
    [help |-> FALSE, start |-> UnsetCoord, format |-> "", split_strategy |-> "",
     width |-> 0, height |-> 0, depth |-> 0, name |-> "",
     auto_phase |-> FALSE, dig |-> FALSE, build |-> FALSE, place |-> FALSE,
     query |-> FALSE]

\* blueprint_options as parse_commandline leaves them: width and height
\* greater than 0, depth not 0
ParsedOptions ==
    { [help |-> FALSE, start |-> st, format |-> fmt, split_strategy |-> sp,
       width |-> w, height |-> h, depth |-> d, name |-> "bp",
       auto_phase |-> ph["auto_phase"], dig |-> ph["dig"],
       build |-> ph["build"], place |-> ph["place"], query |-> ph["query"]] :
        st \in StartChoices, fmt \in {"minimal", "pretty"},
        sp \in {"none", "phase"}, w \in 1..MaxWidth, h \in 1..MaxHeight,
        d \in DepthChoices, ph \in PhaseChoices }

FreshContext(pretty) == [pretty |-> pretty, b |-> NoBuilding]

\* the values of the variables of a run between two runs
IdleRun ==
    /\ pc = "idle"
    /\ opts = DefaultOptions
    /\ start = UnsetCoord
    /\ end = UnsetCoord
    /\ processors = <<>>
    /\ pos = UnsetCoord
    /\ pi = 0
    /\ ctx = FreshContext(FALSE)
    /\ lookups = 0
    /\ dir_created = FALSE
    /\ output_files = EmptyMap
    /\ disk = EmptyMap
    /\ opened = <<>>
    /\ wi = 0
    /\ filenames = <<>>
    /\ ok = "none"

\* the cache unit before any call
CacheIdle ==
    /\ nodes = EmptyMap
    /\ refs = {}
    /\ stale = {}

UnitIdle ==
    /\ toks = EmptyMap
    /\ trapB = NoBuilding
    /\ tokA = NULL
    /\ tokB = NULL
    /\ CacheIdle

Init == IdleRun /\ UnitIdle /\ _cache = {}

(***************************************************************************)
(* do_blueprint, up to its call of do_transform.                           *)
(***************************************************************************)
crop_end_without_x_crop(st, o) ==
    LET ey == st.y + o.height
        ez == st.z + o.depth
        ez1 == IF ez > z_count THEN z_count ELSE ez
    IN  Coord(st.x + o.width,
              IF ey > y_count THEN y_count ELSE ey,
              IF ez1 < -1 THEN -1 ELSE ez1)

crop_end_one_beyond(st, o) ==
    LET ex == st.x + o.width + 1
        ey == st.y + o.height
        ez == st.z + o.depth
        ez1 == IF ez > z_count THEN z_count ELSE ez
    IN  Coord(IF ex > x_count + 1 THEN x_count + 1 ELSE ex,
              IF ey > y_count THEN y_count ELSE ey,
              IF ez1 < -1 THEN -1 ELSE ez1)

\* the end coordinate, one beyond the last processed one, cropped to the map
crop_end(st, o) ==
    LET ex == st.x + o.width
        ey == st.y + o.height
        ez == st.z + o.depth
        ez1 == IF ez > z_count THEN z_count ELSE ez
    IN  Coord(IF ex > x_count THEN x_count ELSE ex,
              IF ey > y_count THEN y_count ELSE ey,
              IF ez1 < -1 THEN -1 ELSE ez1)

\* do_blueprint returns b before it calls do_transform
EarlyReturn(o, b) ==
    /\ opts' = o
    /\ ok' = b
    /\ pc' = "returned"
    /\ UNCHANGED <<start, end, processors, pos, pi, ctx, lookups, _cache,
                   dir_created, output_files, disk, opened, wi, filenames>>

\* parameters[0] == "gui": return CR_OK, which is 0
DoBlueprintGui ==
    /\ pc = "idle"
    /\ EarlyReturn(DefaultOptions, "false")
    /\ UNCHANGED <<toks, trapB, nodes, refs, stale, tokA, tokB>>

\* get_options fails, or sets options.help: return options.help
DoBlueprintHelp ==
    /\ pc = "idle"
    /\ \E help \in BOOLEAN :
          EarlyReturn([DefaultOptions EXCEPT !.help = help],
                      IF help THEN "true" ELSE "false")
    /\ UNCHANGED <<toks, trapB, nodes, refs, stale, tokA, tokB>>

DoBlueprint ==
    /\ pc = "idle"
    /\ \E o \in ParsedOptions, map_valid \in BOOLEAN, cursor \in CursorChoices :
          LET st == IF o.start.x = -30000 THEN cursor ELSE o.start IN
          IF ~map_valid THEN EarlyReturn(o, "false")
          ELSE IF o.start.x = -30000 /\ cursor = UnsetCoord
          THEN EarlyReturn(o, "false")
          ELSE IF ~isValidTilePos(st) THEN EarlyReturn(o, "false")
          ELSE /\ opts' = o
               /\ start' = st
               /\ end' = crop_end(st, o)
               /\ pc' = "do_transform"
               /\ UNCHANGED <<processors, pos, pi, ctx, lookups, _cache,
                              dir_created, output_files, disk, opened, wi,
                              filenames, ok>>
    /\ UNCHANGED <<toks, trapB, nodes, refs, stale, tokA, tokB>>

(***************************************************************************)
(* do_transform.                                                           *)
(***************************************************************************)
Processor(phase) == [phase |-> phase, mapdata |-> EmptyMap]

make_processors_build_first(o) ==
    (IF o.auto_phase \/ o.build THEN <<Processor("build")>> ELSE <<>>)
    \o (IF o.auto_phase \/ o.dig THEN <<Processor("dig")>> ELSE <<>>)
    \o (IF o.auto_phase \/ o.place THEN <<Processor("place")>> ELSE <<>>)
    \o (IF o.auto_phase \/ o.query THEN <<Processor("query")>> ELSE <<>>)

\* the processors of the requested phases, in the order they are pushed
make_processors(o) ==
    (IF o.auto_phase \/ o.dig THEN <<Processor("dig")>> ELSE <<>>)
    \o (IF o.auto_phase \/ o.build THEN <<Processor("build")>> ELSE <<>>)
    \o (IF o.auto_phase \/ o.place THEN <<Processor("place")>> ELSE <<>>)
    \o (IF o.auto_phase \/ o.query THEN <<Processor("query")>> ELSE <<>>)

\* do_transform returns b
TransformReturn(b) ==
    /\ ok' = b
    /\ pc' = "transform_returned"

z_inc == IF start.z < end.z THEN 1 ELSE -1

\* the loop variables after the increments that follow the tile p
NextPos(p) ==
    IF p.x + 1 < end.x THEN [p EXCEPT !.x = p.x + 1]
    ELSE IF p.y + 1 < end.y THEN Coord(start.x, p.y + 1, p.z)
    ELSE Coord(start.x, start.y, p.z + z_inc)

\* whether the three loops have no tile at all
ScanEmpty == start.z = end.z \/ start.y >= end.y \/ start.x >= end.x

do_transform_begin_dir_first ==
    /\ pc = "do_transform"
    /\ processors' = make_processors(opts)
    /\ \E mkdir_ok \in BOOLEAN :
          IF ~mkdir_ok
          THEN /\ TransformReturn("false")
               /\ UNCHANGED <<dir_created, pos, pi, ctx, lookups, wi>>
          ELSE IF processors' = <<>>
          THEN /\ TransformReturn("false")
               /\ dir_created' = TRUE
               /\ UNCHANGED <<pos, pi, ctx, lookups, wi>>
          ELSE /\ dir_created' = TRUE
               /\ ctx' = FreshContext(opts.format # "minimal")
               /\ pos' = start
               /\ pi' = 0
               /\ lookups' = 0
               /\ wi' = 1
               /\ pc' = IF ScanEmpty THEN "write" ELSE "scan"
               /\ UNCHANGED ok
    /\ UNCHANGED <<opts, start, end, _cache, output_files, disk, opened,
                   filenames, toks, trapB, nodes, refs, stale, tokA, tokB>>

\* the processors, the check that there is one, create_output_dir and the
\* entry into the loops
do_transform_begin ==
    /\ pc = "do_transform"
    /\ processors' = make_processors(opts)
    /\ IF processors' = <<>>
       THEN /\ TransformReturn("false")
            /\ UNCHANGED <<dir_created, pos, pi, ctx, lookups, wi>>
       ELSE \E mkdir_ok \in BOOLEAN :
               IF ~mkdir_ok
               THEN /\ TransformReturn("false")
                    /\ UNCHANGED <<dir_created, pos, pi, ctx, lookups, wi>>
               ELSE /\ dir_created' = TRUE
                    /\ ctx' = FreshContext(opts.format # "minimal")
                    /\ pos' = start
                    /\ pi' = 0
                    /\ lookups' = 0
                    /\ wi' = 1
                    /\ pc' = IF ScanEmpty THEN "write" ELSE "scan"
                    /\ UNCHANGED ok
    /\ UNCHANGED <<opts, start, end, _cache, output_files, disk, opened,
                   filenames, toks, trapB, nodes, refs, stale, tokA, tokB>>

\* one pass of the body of the innermost loop for one processor: of the
\* processor pi + 1 on the tile pos, or, after the last processor, the loop
\* increments and then the first processor on the next tile
scan_tile ==
    /\ pc = "scan"
    /\ LET last == pi = Len(processors)
           p == IF last THEN NextPos(pos) ELSE pos
           i == IF last THEN 1 ELSE pi + 1
           cx0 == IF last THEN FreshContext(ctx.pretty) ELSE ctx
           n0 == IF last THEN 0 ELSE lookups
       IN  IF last /\ p.z = end.z
           THEN /\ pc' = "write"
                /\ UNCHANGED <<processors, pos, pi, ctx, lookups, _cache>>
           ELSE LET phase == processors[i].phase
                    e == IF has_init_ctx(phase) THEN ensure_building(p, cx0)
                         ELSE [b |-> cx0.b, looked_up |-> 0]
                    cx == [cx0 EXCEPT !.b = e.b]
                    r == get_tile(phase, p, cx, _cache)
                IN  /\ processors' =
                          IF r.str # NULL
                          THEN [processors EXCEPT ![i].mapdata =
                                   record(@, p, start, r.str)]
                          ELSE processors
                    /\ _cache' = r.c
                    /\ pos' = p
                    /\ pi' = i
                    /\ ctx' = cx
                    /\ lookups' = n0 + e.looked_up
                    /\ UNCHANGED pc
    /\ UNCHANGED <<opts, start, end, dir_created, output_files, disk, opened,
                   wi, filenames, ok, toks, trapB, nodes, refs, stale, tokA, tokB>>

\* the text plugins.blueprint.get_filename returns for a phase
lua_get_filename(o, phase) ==
    "blueprints/" \o o.name
        \o (IF o.split_strategy = "phase" THEN "-" \o phase ELSE "")
        \o ".csv"

\* the names lua_get_filename can return, in the order of std::map<string>
NameOrder ==
    << "blueprints/bp-build.csv", "blueprints/bp-dig.csv",
       "blueprints/bp-place.csv", "blueprints/bp-query.csv",
       "blueprints/bp.csv" >>

\* what write_blueprint streams into the file of a processor
blueprint_text(o, proc, pretty) ==
    get_modeline(proc.phase) \o endl
        \o (IF pretty THEN write_pretty(o, proc.mapdata)
            ELSE write_minimal(o, proc.mapdata))

\* write_blueprint for the processor wi: get_filename may fail; a file name
\* not seen before gets a new ofstream, which may fail to open and then
\* drops what is streamed into it
write_blueprint ==
    /\ pc = "write"
    /\ \E fname_ok \in BOOLEAN, open_ok \in BOOLEAN :
          LET proc == processors[wi]
              fname == lua_get_filename(opts, proc.phase)
              new == fname \notin DOMAIN output_files
              files == IF new THEN (fname :> [is_open |-> open_ok]) @@ output_files
                       ELSE output_files
              truncated == IF new /\ open_ok THEN (fname :> "") @@ disk
                           ELSE disk
          IN  IF ~fname_ok
              THEN /\ open_ok
                   /\ TransformReturn("false")
                   /\ UNCHANGED <<output_files, disk, opened, wi>>
              ELSE /\ new \/ open_ok
                   /\ output_files' = files
                   /\ opened' = IF new THEN Append(opened, fname) ELSE opened
                   /\ disk' = IF files[fname].is_open
                              THEN [truncated EXCEPT ![fname] =
                                      @ \o blueprint_text(opts, proc,
                                                opts.format # "minimal")]
                              ELSE truncated
                   /\ wi' = wi + 1
                   /\ pc' = IF wi = Len(processors) THEN "close" ELSE "write"
                   /\ UNCHANGED ok
    /\ UNCHANGED <<opts, start, end, processors, pos, pi, ctx, lookups,
                   _cache, dir_created, filenames, toks, trapB, nodes, refs, stale, tokA, tokB>>

\* the loop over output_files that closes and deletes every stream
close_files ==
    /\ pc = "close"
    /\ filenames' = filenames
           \o SelectSeq(NameOrder, LAMBDA n : n \in DOMAIN output_files)
    /\ output_files' = EmptyMap
    /\ TransformReturn("true")
    /\ UNCHANGED <<opts, start, end, processors, pos, pi, ctx, lookups,
                   _cache, dir_created, disk, opened, wi, toks, trapB, nodes, refs, stale, tokA,
                   tokB>>

do_blueprint_return_keep_cache ==
    /\ pc = "transform_returned"
    /\ pc' = "returned"
    /\ UNCHANGED <<opts, start, end, processors, pos, pi, ctx, lookups,
                   _cache, dir_created, output_files, disk, opened, wi,
                   filenames, ok, toks, trapB, nodes, refs, stale, tokA, tokB>>

\* do_blueprint after do_transform: cache(NULL) and return ok
do_blueprint_return ==
    /\ pc = "transform_returned"
    /\ _cache' = cache(NULL, _cache)
    /\ pc' = "returned"
    /\ UNCHANGED <<opts, start, end, processors, pos, pi, ctx, lookups,
                   dir_created, output_files, disk, opened, wi, filenames, ok,
                   toks, trapB, nodes, refs, stale, tokA, tokB>>

\* the caller takes the result; the locals of the run are gone
blueprint ==
    /\ pc = "returned"
    /\ pc' = "idle"
    /\ opts' = DefaultOptions
    /\ start' = UnsetCoord
    /\ end' = UnsetCoord
    /\ processors' = <<>>
    /\ pos' = UnsetCoord
    /\ pi' = 0
    /\ ctx' = FreshContext(FALSE)
    /\ lookups' = 0
    /\ dir_created' = FALSE
    /\ output_files' = EmptyMap
    /\ disk' = EmptyMap
    /\ opened' = <<>>
    /\ wi' = 0
    /\ filenames' = <<>>
    /\ ok' = "none"
    /\ UNCHANGED <<_cache, toks, trapB, nodes, refs, stale, tokA, tokB>>

Next ==
    \/ DoBlueprintGui
    \/ DoBlueprintHelp
    \/ DoBlueprint
    \/ do_transform_begin
    \/ scan_tile
    \/ write_blueprint
    \/ close_files
    \/ do_blueprint_return
    \/ blueprint

Spec == Init /\ [][Next]_vars

(***************************************************************************)
(* Reading a file back by its delimiters.                                  *)
(***************************************************************************)
Phases == {"dig", "build", "place", "query"}

IsModeline(l) == \E ph \in Phases : l = get_modeline(ph)

IsLayerSeparator(l) == l = "#<" \/ l = "#>"

\* the lines of the section of a phase: those after its header line, up to
\* the next header line or the end of the text
SectionLines(text, phase) ==
    LET L == Lines(text)
        h == CHOOSE i \in 1..Len(L) : L[i] = get_modeline(phase)
        later == {j \in (h + 1)..Len(L) : IsModeline(L[j])}
        e == IF later = {} THEN Len(L)
             ELSE (CHOOSE j \in later : \A j2 \in later : j <= j2) - 1
    IN  SubSeq(L, h + 1, e)

\* the blocks of a section: the runs of lines between layer separators
Blocks(L) ==
    LET seps == {j \in 1..Len(L) : IsLayerSeparator(L[j])}
        bound == SortedKeys({0} \cup seps \cup {Len(L) + 1})
    IN  [k \in 1..(Cardinality(seps) + 1) |->
            SubSeq(L, bound[k] + 1, bound[k + 1] - 1)]

\* whether the cell of layer k, row r, column c is in the blocks B
HasCell(B, k, r, c) ==
    /\ k + 1 \in 1..Len(B)
    /\ r + 1 \in 1..Len(B[k + 1])
    /\ c + 1 \in 1..Len(Split(B[k + 1][r + 1], ","))

\* the text of that cell: what stands after c commas on line r of block k
Cell(B, k, r, c) == Split(B[k + 1][r + 1], ",")[c + 1]

\* the processors whose section write_blueprint has streamed into a file
\* that is on the disk
Written ==
    {i \in 1..Len(processors) :
        /\ i < wi
        /\ lua_get_filename(opts, processors[i].phase) \in DOMAIN disk}

SectionOf(i) ==
    SectionLines(disk[lua_get_filename(opts, processors[i].phase)],
                 processors[i].phase)

\* the tiles of the end-exclusive box from start to end
ScanBox ==
    {p \in [x : start.x..(end.x - 1), y : start.y..(end.y - 1),
            z : 0..(z_count - 1)] :
        IF start.z < end.z THEN start.z <= p.z /\ p.z < end.z
        ELSE end.z < p.z /\ p.z <= start.z}

\* the token of a phase for the tile p of the world
TokenAt(phase, p) ==
    get_tile(phase, p, [pretty |-> opts.format # "minimal",
                        b |-> findAtTile(p)], {}).str

(***************************************************************************)
(* The dense layout.                                                       *)
(***************************************************************************)
Pretty == opts.format # "minimal"

\* C2: in the dense layout the section of every written phase has exactly
\* abs(depth) layers, every layer exactly height rows, and every row exactly
\* width cells, each followed by a comma, and then the end-of-row marker #,
\* whatever the sparse volume holds.
C2_DenseGrid ==
    \A i \in Written :
        Pretty =>
            LET B == Blocks(SectionOf(i)) IN
            /\ Len(B) = Abs(opts.depth)
            /\ \A k \in 1..Len(B) :
                  /\ Len(B[k]) = opts.height
                  /\ \A r \in 1..Len(B[k]) :
                        LET cells == Split(B[k][r], ",") IN
                        /\ Len(cells) = opts.width + 1
                        /\ cells[opts.width + 1] = "#"

\* a finished dense run over a volume that was clamped to the map in x and
\* in z, with one phase that recorded nothing and one that recorded tokens
C2_Witness ==
    /\ pc = "returned"
    /\ ok = "true"
    /\ Pretty
    /\ end.x < start.x + opts.width
    /\ Abs(end.z - start.z) < Abs(opts.depth)
    /\ \E i \in Written : processors[i].mapdata = EmptyMap
    /\ \E i \in Written : processors[i].mapdata # EmptyMap

(***************************************************************************)
(* The order of the layers.                                                *)
(***************************************************************************)
\* the token of the tile p is recorded in md under abs(p.z - start.z)
RecordedAt(md, p, t) ==
    LET k == Abs(p.z - start.z)
        r == p.y - start.y
        c == p.x - start.x
    IN  /\ k \in DOMAIN md
        /\ r \in DOMAIN md[k]
        /\ c \in DOMAIN md[k][r]
        /\ md[k][r][c] = t

\* C3: every token is recorded under the layer offset abs(z - start.z), every
\* layer key is non-negative, and in the file the token of a tile at world z
\* stands after exactly abs(z - start.z) layer separators, so layers are
\* serialized in ascending offset order whatever the sign of depth.
C3_LayerOrder ==
    /\ \A i \in 1..Len(processors) :
          \A k \in DOMAIN processors[i].mapdata : k >= 0
    /\ (pc = "scan" /\ pi >= 1) =>
          LET t == TokenAt(processors[pi].phase, pos) IN
          t # NULL => RecordedAt(processors[pi].mapdata, pos, t)
    /\ \A i \in Written :
          LET B == Blocks(SectionOf(i)) IN
          \A p \in ScanBox :
              LET t == TokenAt(processors[i].phase, p)
                  k == Abs(p.z - start.z)
              IN  t # NULL =>
                    /\ RecordedAt(processors[i].mapdata, p, t)
                    /\ HasCell(B, k, p.y - start.y, p.x - start.x)
                    /\ Cell(B, k, p.y - start.y, p.x - start.x) = t

\* a finished scan from z = 10 with depth = -5 whose excavation phase recorded
\* tokens at world z = 9 (offset 1) and z = 7 (offset 3)
C3_Witness ==
    /\ pc = "returned"
    /\ start.z = 10
    /\ opts.depth = -5
    /\ \E i \in Written :
          /\ processors[i].phase = "dig"
          /\ {1, 3} \subseteq DOMAIN processors[i].mapdata
          /\ \E p \in ScanBox : p.z = 9 /\ TokenAt("dig", p) # NULL
          /\ \E p \in ScanBox : p.z = 7 /\ TokenAt("dig", p) # NULL

(***************************************************************************)
(* Open files.                                                             *)
(***************************************************************************)
\* the names whose ofstream exists and is open
OpenHandles == {f \in DOMAIN output_files : output_files[f].is_open}

\* C4: every output file opened during a run is closed before the run
\* returns, on every exit path: no open handle remains when do_blueprint
\* has returned.
C4_AllClosedOnReturn == pc = "returned" => OpenHandles = {}

(***************************************************************************)
(* No phase selected.                                                      *)
(***************************************************************************)
NoPhase(o) == ~(o.auto_phase \/ o.dig \/ o.build \/ o.place \/ o.query)

\* C5: a run with no phase selected fails, and it never creates the output
\* directory, scans a tile, opens a file or creates one.
C5_NoPhaseFailsEarly ==
    (pc # "idle" /\ ~opts.help /\ NoPhase(opts)) =>
        /\ pc \in {"do_transform", "transform_returned", "returned"}
        /\ pc # "do_transform" => ok = "false"
        /\ ~dir_created
        /\ pos = UnsetCoord
        /\ \A i \in 1..Len(processors) : processors[i].mapdata = EmptyMap
        /\ opened = <<>>
        /\ output_files = EmptyMap
        /\ disk = EmptyMap
        /\ filenames = <<>>

\* do_transform was entered with no phase selected and the run has returned
C5_Witness ==
    /\ pc = "returned"
    /\ start # UnsetCoord
    /\ NoPhase(opts)
    /\ ok = "false"

(***************************************************************************)
(* The token cache between runs.                                           *)
(***************************************************************************)
\* the keys <<layer, row, column>> of a volume
TokenKeys(md) ==
    UNION {UNION {{<<k, r, c>> : c \in DOMAIN md[k][r]} : r \in DOMAIN md[k]} :
              k \in DOMAIN md}

\* the tokens a volume holds
TokensOf(md) == {md[t[1]][t[2]][t[3]] : t \in TokenKeys(md)}

\* C6: the token cache is empty whenever no run is in progress, after a run
\* that succeeded or failed on any path.
C6_CacheEmptyBetweenRuns == pc \in {"idle", "returned"} => _cache = {}

\* a run that interned a token and then failed in write_blueprint has
\* returned
C6_Witness ==
    /\ pc = "returned"
    /\ ok = "false"
    /\ dir_created
    /\ \E i \in 1..Len(processors) :
          "CSddaa" \in TokensOf(processors[i].mapdata)
    /\ _cache = {}

(***************************************************************************)
(* The continuation placeholder in the two layouts.                        *)
(***************************************************************************)
NWKinds ==
    {"FarmPlot", "RoadPaved", "RoadDirt", "Bridge", "AxleHorizontal",
     "Rollers"}

CenterKinds ==
    {"SiegeEngine", "Workshop", "Furnace", "Shop", "TradeDepot", "WaterWheel",
     "Windmill"}

SEKinds == {"ScrewPump"}

\* the kinds of structure that put their token on one tile of the footprint
AnchoredKinds == NWKinds \cup CenterKinds \cup SEKinds

\* the anchor tile <<x, y>> of a structure of an anchored kind
AnchorOf(b) ==
    CASE b.type \in NWKinds -> <<b.x1, b.y1>>
      [] b.type \in CenterKinds -> <<b.centerx, b.centery>>
      [] b.type \in SEKinds -> <<b.x2, b.y2>>

\* p is a tile of a multi-tile structure (construction phase) or of a
\* stockpile (designation phase) other than its anchor
IsContinuation(phase, p) ==
    LET b == findAtTile(p) IN
    \/ /\ phase = "build"
       /\ b.type \in AnchoredKinds
       /\ <<p.x, p.y>> # AnchorOf(b)
    \/ /\ phase = "place"
       /\ b.type = "Stockpile"
       /\ <<p.x, p.y>> # <<b.x1, b.y1>>

\* in the section of every written phase, the cell of every continuation
\* tile of the scanned box is dense in the dense layout and minimal in the
\* minimal one
PlaceholderCells(dense, minimal) ==
    \A i \in Written :
        LET B == Blocks(SectionOf(i)) IN
        \A p \in ScanBox :
            IsContinuation(processors[i].phase, p) =>
                LET k == Abs(p.z - start.z)
                    r == p.y - start.y
                    c == p.x - start.x
                IN  /\ HasCell(B, k, r, c)
                    /\ Cell(B, k, r, c) \in (IF Pretty THEN dense ELSE minimal)

\* C7 as stated: the placeholder of a non-anchor tile is a blank or empty
\* cell in the dense layout and the backtick marker in the minimal layout.
C7_BlankWhenDense == PlaceholderCells({"", " "}, {BACKTICK})

\* C7 as amended: the placeholder of a non-anchor tile is the backtick marker
\* in the dense layout and an empty cell in the minimal layout.
C7_BacktickWhenDense == PlaceholderCells({BACKTICK}, {""})

\* a finished dense run whose construction section holds a non-anchor tile
\* of a multi-tile structure
C7_Witness ==
    /\ pc = "returned"
    /\ Pretty
    /\ \E i \in Written :
          /\ processors[i].phase = "build"
          /\ \E p \in ScanBox : IsContinuation("build", p)

(***************************************************************************)
(* The minimal layout.                                                     *)
(***************************************************************************)
Max(S) == CHOOSE m \in S : \A j \in S : j <= m

\* C10: in the minimal layout a token recorded at (layer k, row r, column c)
\* stands after exactly k layer-separator lines of its section, on line r of
\* the block of its layer, after exactly c commas of that line; a line holds
\* no comma beyond the last recorded column of its row, no line beyond the
\* last recorded row of its layer and no block beyond the last recorded
\* layer; an empty volume leaves nothing after the header.
C10_MinimalPositions ==
    \A i \in Written :
        ~Pretty =>
            LET md == processors[i].mapdata
                L == SectionOf(i)
                B == Blocks(L)
            IN  IF md = EmptyMap THEN L = <<>>
                ELSE /\ Len(B) = Max(DOMAIN md) + 1
                     /\ \A k \in 0..Max(DOMAIN md) :
                           IF k \notin DOMAIN md THEN B[k + 1] = <<>>
                           ELSE /\ Len(B[k + 1]) = Max(DOMAIN md[k]) + 1
                                /\ \A r \in 0..Max(DOMAIN md[k]) :
                                      IF r \notin DOMAIN md[k]
                                      THEN B[k + 1][r + 1] = ""
                                      ELSE /\ CountChar(B[k + 1][r + 1], ",", 1)
                                                = Max(DOMAIN md[k][r])
                                           /\ \A c \in DOMAIN md[k][r] :
                                                 Cell(B, k, r, c) = md[k][r][c]

\* a finished minimal run with a phase whose volume has a gap between two
\* recorded layers, a row that starts after column 0 and a layer that starts
\* after row 0
C10_Witness ==
    /\ pc = "returned"
    /\ ~Pretty
    /\ \E i \in Written :
          LET md == processors[i].mapdata IN
          /\ \E k \in DOMAIN md : k >= 2 /\ k - 1 \notin DOMAIN md
          /\ \E k \in DOMAIN md : \E r \in DOMAIN md[k] : 0 \notin DOMAIN md[k][r]
          /\ \E k \in DOMAIN md : 0 \notin DOMAIN md[k]

(***************************************************************************)
(* The files of a run.                                                     *)
(***************************************************************************)
PhaseOrder == <<"dig", "build", "place", "query">>

\* the header lines of a text, in the order they stand in it
Headers(text) == SelectSeq(Lines(text), IsModeline)

\* the phases whose section write_blueprint has streamed into the file f
PhasesIn(f) ==
    {processors[i].phase : i \in {j \in 1..Len(processors) :
        j < wi /\ lua_get_filename(opts, processors[j].phase) = f}}

\* the header lines of a set of phases in the fixed phase order
HeadersOf(S) ==
    LET ordered == SelectSeq(PhaseOrder, LAMBDA ph : ph \in S)
    IN  [k \in 1..Len(ordered) |-> get_modeline(ordered[k])]

\* C11: no file is opened, created or written before the scan has finished;
\* no file name is opened twice in a run; every file holds the sections of
\* exactly the written phases that resolve to its name, in the order dig,
\* build, place, query, each starting with its own header line, the first of
\* them on the first line of the file; phases with the same name share the
\* one stream of that name.
C11_SharedFileSections ==
    /\ pc \in {"idle", "do_transform", "scan"} =>
          /\ opened = <<>>
          /\ output_files = EmptyMap
          /\ disk = EmptyMap
    /\ \A i, j \in 1..Len(opened) : i # j => opened[i] # opened[j]
    /\ \A f \in DOMAIN disk :
          LET L == Lines(disk[f])
              H == SelectSeq(L, IsModeline)
          IN  /\ \E i \in 1..Len(opened) : opened[i] = f
              /\ H = HeadersOf(PhasesIn(f))
              /\ PhasesIn(f) # {} => L[1] = H[1]
    /\ pc \in {"write", "close"} =>
          DOMAIN output_files = {opened[i] : i \in 1..Len(opened)}

\* a finished run of all four phases into one file, opened once
C11_Witness ==
    /\ pc = "returned"
    /\ ok = "true"
    /\ Len(processors) = 4
    /\ opened = <<"blueprints/bp.csv">>
    /\ "blueprints/bp.csv" \in DOMAIN disk
    /\ Len(Headers(disk["blueprints/bp.csv"])) = 4
    /\ \E i \in 1..4 : processors[i].mapdata # EmptyMap

(***************************************************************************)
(* A file that cannot be opened.                                           *)
(***************************************************************************)
\* a stream of the run was made for a name and the open failed: the name was
\* passed to new ofstream and no file of that name was created
OpenFailed == \E i \in 1..Len(opened) : opened[i] \notin DOMAIN disk

\* C14: when an output file cannot be opened, write_blueprint is not called
\* for any phase after the one whose file failed to open, and the run returns
\* failure.
C14_OpenFailureFails ==
    OpenFailed =>
        LET failed == {i \in 1..Len(processors) :
                          LET f == lua_get_filename(opts, processors[i].phase)
                          IN  /\ \E j \in 1..Len(opened) : opened[j] = f
                              /\ f \notin DOMAIN disk}
            first == CHOOSE i \in failed : \A j \in failed : i <= j
        IN  /\ wi <= first + 1
            /\ pc \in {"transform_returned", "returned"} => ok = "false"

(***************************************************************************)
(* The structure lookup of a tile.                                         *)
(***************************************************************************)
\* C16: Buildings::findAtTile is called at most once for every tile of the
\* scan, whatever phases are active and whether or not a structure is on
\* the tile, every phase sees the structure of the tile once it is looked
\* up, and a run of the excavation phase alone never calls it.
C16_OneLookupPerTile ==
    pc = "scan" =>
        /\ lookups <= 1
        /\ lookups = 1 => ctx.b = findAtTile(pos)
        /\ (\A i \in 1..Len(processors) : processors[i].phase = "dig") =>
              lookups = 0

(***************************************************************************)
(* The sparse volume during the scan.                                      *)
(***************************************************************************)
\* the tile of the scan that the key <<layer, row, column>> stands for
TileOf(t) == Coord(start.x + t[3], start.y + t[2], start.z + t[1] * z_inc)

\* the tile p has been passed to the processor i
Scanned(i, p) ==
    \/ pc \notin {"scan", "do_transform"}
    \/ /\ pc = "scan"
       /\ \/ Abs(p.z - start.z) < Abs(pos.z - start.z)
          \/ p.z = pos.z /\ p.y < pos.y
          \/ p.z = pos.z /\ p.y = pos.y /\ p.x < pos.x
          \/ p = pos /\ i <= pi

\* the volume md has no layer without a row and no row without a column
NoEmptyLevel(md) ==
    \A k \in DOMAIN md :
        /\ DOMAIN md[k] # {}
        /\ \A r \in DOMAIN md[k] : DOMAIN md[k][r] # {}

\* C17: at every step the volume of every phase has no layer key without a
\* row and no row key without a column entry, and every column entry is the
\* token, not absent, that the classifier of that phase returned for the
\* scanned tile of that key; a step of the scan on a tile whose classifier
\* returns no token changes no volume, and a step that records a token
\* changes only the volume of the phase that produced it, by that one entry.
C17_SparseByConstruction ==
    /\ [](\A i \in 1..Len(processors) :
             LET md == processors[i].mapdata IN
             /\ NoEmptyLevel(md)
             /\ \A t \in TokenKeys(md) :
                   /\ TileOf(t) \in ScanBox
                   /\ Scanned(i, TileOf(t))
                   /\ TokenAt(processors[i].phase, TileOf(t)) # NULL
                   /\ md[t[1]][t[2]][t[3]]
                         = TokenAt(processors[i].phase, TileOf(t)))
    /\ [][(pc = "scan" /\ pc' = "scan") =>
             LET tok == TokenAt(processors[pi'].phase, pos') IN
             /\ \A j \in 1..Len(processors) :
                   j # pi' => processors'[j] = processors[j]
             /\ processors'[pi'].phase = processors[pi'].phase
             /\ tok = NULL => processors' = processors
             /\ tok # NULL =>
                   TokenKeys(processors'[pi'].mapdata)
                       = TokenKeys(processors[pi'].mapdata)
                           \cup {<<Abs(pos'.z - start.z), pos'.y - start.y,
                                   pos'.x - start.x>>}]_vars

\* the scan is on a tile for which the first phase recorded a token and the
\* second phase, which has tokens of earlier tiles, got none
C17_Witness ==
    /\ pc = "scan"
    /\ pi = 2
    /\ TokenAt(processors[1].phase, pos) # NULL
    /\ TokenAt(processors[2].phase, pos) = NULL
    /\ processors[1].mapdata # EmptyMap
    /\ processors[2].mapdata # EmptyMap
    /\ \E k \in DOMAIN processors[1].mapdata :
          k \notin DOMAIN processors[2].mapdata

(***************************************************************************)
(* The scanned box.                                                        *)
(***************************************************************************)
\* do_transform has been called in the current run
InTransform ==
    pc \in {"do_transform", "scan", "write", "close", "transform_returned"}

\* the extents of the box from start to end
BoxWidth == end.x - start.x

BoxHeight == end.y - start.y

BoxDepth == Abs(end.z - start.z)

\* the place of the tile p in the order z, then y, then x of the loops
Rank(p) ==
    (Abs(p.z - start.z) * BoxHeight + (p.y - start.y)) * BoxWidth
        + (p.x - start.x)

\* C18: for a valid start, width > 0, height > 0 and depth # 0 the cropped
\* end lies beyond start in x and y and differs from it in z, so the box,
\* which is fixed when do_transform is entered, has at least one tile, all
\* of its tiles are tiles of the map, and the scan
\* enters at the first tile of the box, passes from a tile only to the next
\* one in the order of the loops after every processor has run on it once,
\* and leaves the loops from the last tile: it visits every tile of the box
\* exactly once and ends after as many tiles as the box has.
C18_ScanVisitsBoxOnce ==
    /\ [](InTransform =>
             /\ isValidTilePos(start)
             /\ opts.width > 0 /\ opts.height > 0 /\ opts.depth # 0
             /\ end = Coord(IF start.x + opts.width > x_count THEN x_count
                            ELSE start.x + opts.width,
                            IF start.y + opts.height > y_count THEN y_count
                            ELSE start.y + opts.height,
                            IF start.z + opts.depth > z_count THEN z_count
                            ELSE IF start.z + opts.depth < -1 THEN -1
                            ELSE start.z + opts.depth)
             /\ BoxWidth >= 1 /\ BoxHeight >= 1 /\ BoxDepth >= 1
             /\ pc = "do_transform" =>
                   /\ Cardinality(ScanBox) = BoxWidth * BoxHeight * BoxDepth
                   /\ \A p \in ScanBox :
                         /\ isValidTilePos(p)
                         /\ Rank(p) \in 0..(Cardinality(ScanBox) - 1)
                         /\ \A q \in ScanBox : Rank(p) = Rank(q) => p = q
             /\ pc = "scan" =>
                   /\ pos \in ScanBox
                   /\ pi \in 0..Len(processors)
                   /\ pi = 0 => pos = start)
    /\ [][/\ (pc = "do_transform" /\ pc' \notin {"do_transform",
                                                 "transform_returned"}) =>
                (pc' = "scan" /\ pos' = start /\ Rank(pos') = 0 /\ pi' = 0)
          /\ (pc = "scan" /\ pc' = "scan") =>
                \/ pos' = pos /\ pi' = pi + 1
                \/ /\ pi = Len(processors)
                   /\ pi' = 1
                   /\ Rank(pos') = Rank(pos) + 1
          /\ (pc = "scan" /\ pc' # "scan") =>
                /\ pc' = "write"
                /\ pi = Len(processors)
                /\ Rank(pos) = Cardinality(ScanBox) - 1]_vars

\* the scan of a box cropped at the bottom of the map and at its east edge
\* has finished
C18_Witness ==
    /\ pc = "write"
    /\ end.z = -1
    /\ start.z + opts.depth < -1
    /\ end.x < start.x + opts.width
    /\ Cardinality(ScanBox) >= 2
    /\ Rank(pos) = Cardinality(ScanBox) - 1

(***************************************************************************)
(* The dense layout of a cropped volume.                                   *)
(***************************************************************************)
\* C19: every key of every volume lies inside the requested bounds, layer in
\* 0..abs(depth)-1, row in 0..height-1, column in 0..width-1; in the dense
\* layout the cell of every key holds the token recorded under it, and every
\* other cell of the requested volume, those beyond the cropped box among
\* them, is a blank.
C19_DenseCellsMatchVolume ==
    /\ \A i \in 1..Len(processors) :
          \A t \in TokenKeys(processors[i].mapdata) :
              /\ t[1] \in 0..(Abs(opts.depth) - 1)
              /\ t[2] \in 0..(opts.height - 1)
              /\ t[3] \in 0..(opts.width - 1)
    /\ \A i \in Written :
          Pretty =>
              LET B == Blocks(SectionOf(i))
                  md == processors[i].mapdata
              IN  \A k \in 0..(Abs(opts.depth) - 1), r \in 0..(opts.height - 1),
                     c \in 0..(opts.width - 1) :
                      /\ HasCell(B, k, r, c)
                      /\ Cell(B, k, r, c) =
                            IF <<k, r, c>> \in TokenKeys(md) THEN md[k][r][c]
                            ELSE " "

\* a finished dense run over a volume cropped in x and in z whose section
\* holds a token and blanks beyond the cropped box
C19_Witness ==
    /\ pc = "returned"
    /\ ok = "true"
    /\ Pretty
    /\ BoxWidth < opts.width
    /\ BoxDepth < Abs(opts.depth)
    /\ \E i \in Written :
          /\ TokensOf(processors[i].mapdata) \ {"", BACKTICK} # {}
          /\ Cell(Blocks(SectionOf(i)), Abs(opts.depth) - 1, opts.height - 1,
                  opts.width - 1) = " "

(***************************************************************************)
(* The construction classifier on the footprint of one structure.          *)
(***************************************************************************)
\* the sub-variants a structure of a kind is drawn from
SubtypesOf(type) ==
    CASE type = "Bridge" -> {"Retracting", "Up", "NONE"}
      [] type = "SiegeEngine" -> {"Catapult", "Ballista"}
      [] type = "Workshop" -> {"Masons", "Kennels", "Custom"}
      [] type = "Furnace" -> {"Smelter", "Custom"}
      [] type \in {"ScrewPump", "Rollers"} -> {"FromNorth", "FromWest", "NONE"}
      [] OTHER -> {"NONE"}

\* the structures of the anchored kinds with a footprint of up to MaxFoot x
\* MaxFoot tiles and the center on any tile of the footprint
UnitBuildings ==
    UNION {
        { [Building(type, 1, 1, w, h, 0, cx, cy, sub)
              EXCEPT !.is_vertical = type \in {"WaterWheel", "AxleHorizontal"}
                                        /\ w = 1] :
            sub \in SubtypesOf(type), cx \in 1..w, cy \in 1..h } :
        type \in AnchoredKinds, w \in 1..MaxFoot, h \in 1..MaxFoot }

\* the values of the variables of a run while a classifier is tried alone
UnitRun(at) ==
    /\ pc = at
    /\ opts = DefaultOptions
    /\ start = UnsetCoord
    /\ end = UnsetCoord
    /\ processors = <<>>
    /\ pi = 0
    /\ lookups = 0
    /\ dir_created = FALSE
    /\ output_files = EmptyMap
    /\ disk = EmptyMap
    /\ opened = <<>>
    /\ wi = 0
    /\ filenames = <<>>
    /\ ok = "none"

InitBuild ==
    /\ UnitRun("classify")
    /\ ctx \in {[pretty |-> pr, b |-> b] : pr \in BOOLEAN, b \in UnitBuildings}
    /\ pos = Coord(ctx.b.x1, ctx.b.y1, ctx.b.z)
    /\ toks = EmptyMap
    /\ trapB = NoBuilding
    /\ tokA = NULL
    /\ tokB = NULL
    /\ CacheIdle
    /\ _cache = {}

\* get_tile_build on the next tile of the footprint of ctx.b, row by row
classify_tile ==
    /\ pc = "classify"
    /\ pos.y <= ctx.b.y2
    /\ LET r == get_tile_build(pos, ctx, _cache) IN
       /\ toks' = (<<pos.x, pos.y>> :> r.str) @@ toks
       /\ _cache' = r.c
    /\ pos' = IF pos.x < ctx.b.x2 THEN [pos EXCEPT !.x = pos.x + 1]
              ELSE Coord(ctx.b.x1, pos.y + 1, pos.z)
    /\ UNCHANGED <<pc, opts, start, end, processors, pi, ctx, lookups,
                   dir_created, output_files, disk, opened, wi, filenames, ok,
                   trapB, nodes, refs, stale, tokA, tokB>>

SpecBuild == InitBuild /\ [][classify_tile]_vars

\* the token of a structure of an anchored kind without its size
KindToken(b) ==
    CASE b.type = "FarmPlot" -> "p"
      [] b.type = "RoadPaved" -> "o"
      [] b.type = "RoadDirt" -> "O"
      [] b.type = "Bridge" -> get_bridge_str(b)
      [] b.type = "SiegeEngine" -> get_siege_str(b)
      [] b.type = "Workshop" -> get_workshop_str(b)
      [] b.type = "Furnace" -> get_furnace_str(b)
      [] b.type = "Shop" -> "z"
      [] b.type = "TradeDepot" -> "D"
      [] b.type = "ScrewPump" -> get_screw_pump_str(b)
      [] b.type = "WaterWheel" -> get_water_wheel_str(b)
      [] b.type = "Windmill" -> "Mm"
      [] b.type = "AxleHorizontal" -> get_axle_str(b)
      [] b.type = "Rollers" -> get_roller_str(b)

\* the full token: with the size of the footprint for the kinds that carry it
FullToken(b) ==
    IF b.type \in NWKinds
    THEN KindToken(b) \o "(" \o ToString(b.x2 - b.x1 + 1) \o "x"
            \o ToString(b.y2 - b.y1 + 1) \o ")"
    ELSE KindToken(b)

\* the continuation placeholder of a layout
Placeholder(pretty) == IF pretty THEN BACKTICK ELSE ""

Footprint(b) == (b.x1..b.x2) \X (b.y1..b.y2)

\* C1: of the tiles of the footprint of a structure of an anchored kind, the
\* anchor yields the full token, with the size of the footprint for the kinds
\* that carry one, and every other tile yields the continuation placeholder;
\* once every tile is classified exactly one holds the full token and the
\* other w*h - 1 hold the placeholder.
C1_OneAnchorToken ==
    pc = "classify" =>
        LET b == ctx.b
            size == get_building_size(b)
        IN  /\ \A t \in DOMAIN toks :
                  toks[t] = IF t = AnchorOf(b) THEN FullToken(b)
                            ELSE Placeholder(ctx.pretty)
            /\ FullToken(b) # Placeholder(ctx.pretty)
            /\ pos.y > b.y2 =>
                  /\ DOMAIN toks = Footprint(b)
                  /\ Cardinality({t \in DOMAIN toks : toks[t] = FullToken(b)})
                        = 1
                  /\ Cardinality({t \in DOMAIN toks :
                                     toks[t] = Placeholder(ctx.pretty)})
                        = size[1] * size[2] - 1

\* every tile of a 3 x 2 screw pump has been classified
C1_Witness ==
    /\ pc = "classify"
    /\ ctx.b.type = "ScrewPump"
    /\ get_building_size(ctx.b) = <<3, 2>>
    /\ pos.y > ctx.b.y2
    /\ DOMAIN toks = Footprint(ctx.b)

(***************************************************************************)
(* The designation classifier on the footprint of one structure.           *)
(***************************************************************************)
\* the groups of df::stockpile_group_set
StockpileGroups ==
    {"animals", "food", "furniture", "corpses", "refuse", "wood", "stone",
     "gems", "bars_blocks", "cloth", "leather", "ammo", "coins",
     "finished_goods", "weapons", "armor"}

\* the settings.flags a stockpile is drawn from: every single group, no
\* group, two groups and all groups
FlagChoices ==
    {{g} : g \in StockpileGroups}
        \cup {{}, {"food", "wood"}, {"stone", "gems"}, StockpileGroups}

\* the stockpiles with a footprint of up to MaxFoot x MaxFoot tiles
UnitStockpiles ==
    { [Building("Stockpile", 1, 1, w, h, 0, 1, 1, "NONE")
          EXCEPT !.flags = fl] :
        w \in 1..MaxFoot, h \in 1..MaxFoot, fl \in FlagChoices }

\* structures that are not stockpiles, and no structure
UnitNonStockpiles ==
    { NoBuilding,
      Building("FarmPlot", 1, 1, 2, 2, 0, 1, 1, "NONE"),
      Building("Workshop", 1, 1, 3, 3, 0, 2, 2, "Masons"),
      [Building("Table", 1, 1, 1, 1, 0, 1, 1, "NONE") EXCEPT !.is_room = TRUE] }

InitPlace ==
    /\ UnitRun("classify_place")
    /\ ctx \in {[pretty |-> pr, b |-> b] :
                   pr \in BOOLEAN, b \in UnitStockpiles \cup UnitNonStockpiles}
    /\ pos = Coord(ctx.b.x1, ctx.b.y1, ctx.b.z)
    /\ UnitIdle
    /\ _cache = {}

\* get_tile_place on the next tile of the footprint of ctx.b, row by row
classify_place ==
    /\ pc = "classify_place"
    /\ pos.y <= ctx.b.y2
    /\ LET r == get_tile_place(pos, ctx, _cache) IN
       /\ toks' = (<<pos.x, pos.y>> :> r.str) @@ toks
       /\ _cache' = r.c
    /\ pos' = IF pos.x < ctx.b.x2 THEN [pos EXCEPT !.x = pos.x + 1]
              ELSE Coord(ctx.b.x1, pos.y + 1, pos.z)
    /\ UNCHANGED <<pc, opts, start, end, processors, pi, ctx, lookups,
                   dir_created, output_files, disk, opened, wi, filenames, ok,
                   trapB, nodes, refs, stale, tokA, tokB>>

SpecPlace == InitPlace /\ [][classify_place]_vars

\* the text (WxH) of the footprint of a structure
SizeSuffix(b) ==
    "(" \o ToString(b.x2 - b.x1 + 1) \o "x" \o ToString(b.y2 - b.y1 + 1) \o ")"

\* the tokens the anchor of a stockpile with the footprint of b gets when
\* its flags are exactly one group
SingleCategoryTokens(b) ==
    {get_tile_place(Coord(b.x1, b.y1, b.z),
                    [pretty |-> FALSE, b |-> [b EXCEPT !.flags = {g}]],
                    {}).str : g \in StockpileGroups}

\* C12: the designation classifier yields no token for a tile with no
\* structure or with a structure that is not a stockpile; of the footprint of
\* a stockpile only the top-left tile yields a category token, which carries
\* the size of the footprint and differs between groups, and every other
\* tile yields the continuation placeholder; a stockpile whose flags are not
\* exactly one group yields on its top-left tile a token that is none of the
\* single-category tokens, and the remaining tiles are classified as usual.
C12_PlaceTokens ==
    pc = "classify_place" =>
        LET b == ctx.b
            single == SingleCategoryTokens(b)
        IN  /\ \A t \in DOMAIN toks :
                  IF b = NoBuilding \/ b.type # "Stockpile"
                  THEN toks[t] = NULL
                  ELSE IF t # <<b.x1, b.y1>>
                  THEN toks[t] = Placeholder(ctx.pretty)
                  ELSE /\ toks[t] # NULL
                       /\ toks[t] # Placeholder(ctx.pretty)
                       /\ Cardinality(b.flags) = 1 <=> toks[t] \in single
                       /\ toks[t] \in single =>
                             /\ Len(toks[t]) = 1 + Len(SizeSuffix(b))
                             /\ SubSeq(toks[t], 2, Len(toks[t])) = SizeSuffix(b)
            /\ b.type = "Stockpile" =>
                  Cardinality(single) = Cardinality(StockpileGroups)
            /\ pos.y > b.y2 => DOMAIN toks = Footprint(b)

\* every tile of a 2 x 2 stockpile of two groups has been classified
C12_Witness ==
    /\ pc = "classify_place"
    /\ ctx.b.type = "Stockpile"
    /\ ctx.b.flags = {"food", "wood"}
    /\ get_building_size(ctx.b) = <<2, 2>>
    /\ pos.y > ctx.b.y2
    /\ DOMAIN toks = Footprint(ctx.b)
    /\ toks[<<1, 1>>] \notin SingleCategoryTokens(ctx.b)

(***************************************************************************)
(* The construction classifier on structures of every kind.                *)
(***************************************************************************)
\* kinds whose token is a fixed text, kinds with no supported encoding among
\* them, and a kind the switch has no case for
FixedKinds ==
    {"Armorstand", "Bed", "Chair", "Door", "Floodgate", "Cabinet", "Box",
     "Weaponrack", "Statue", "Table", "Well", "WindowGlass", "WindowGem",
     "AnimalTrap", "Chain", "Cage", "GearAssembly", "AxleVertical", "Support",
     "ArcheryTarget", "TractionBench", "Hatch", "Slab", "NestBox", "Hive",
     "GrateWall", "GrateFloor", "BarsVertical", "BarsFloor", "Wagon"}

\* the kinds the claim names as having no supported encoding, and the kind
\* without a case
UnsupportedKinds == {"Slab", "Hive", "BarsFloor", "Wagon"}

\* the sub-variants a construction or a trap is drawn from; Custom stands
\* for a sub-variant the code has no case for
SubtypesOfSingle(type) ==
    CASE type = "Construction" ->
            {"Wall", "Floor", "Ramp", "TrackN", "TrackNSEW", "TrackRampSE",
             "Custom"}
      [] type = "Trap" -> {"Lever", "CageTrap", "TrackStop", "Custom"}
      [] OTHER -> {"NONE"}

\* no structure, stockpiles, one-tile structures of every kind and two by
\* two structures of the anchored kinds with recognized and unrecognized
\* sub-variants
KindBuildings ==
    {NoBuilding}
      \cup { [Building("Stockpile", 1, 1, w, 1, 0, 1, 1, "NONE")
                  EXCEPT !.flags = fl] :
              w \in 1..2, fl \in {{"food"}, {"food", "wood"}} }
      \cup UNION { { Building(type, 1, 1, 1, 1, 0, 1, 1, sub) :
                       sub \in SubtypesOfSingle(type) } :
                   type \in FixedKinds \cup {"Construction", "Trap"} }
      \cup UNION { { Building(type, 1, 1, 2, 2, 0, 1, 2, sub) :
                       sub \in SubtypesOf(type) \cup {"Custom"} } :
                   type \in AnchoredKinds }

InitKinds ==
    /\ UnitRun("classify")
    /\ ctx \in {[pretty |-> pr, b |-> b] : pr \in BOOLEAN, b \in KindBuildings}
    /\ pos = Coord(ctx.b.x1, ctx.b.y1, ctx.b.z)
    /\ UnitIdle
    /\ _cache = {}

SpecKinds == InitKinds /\ [][classify_tile]_vars

\* the structure has a kind or a sub-variant for which the code has no
\* encoding
Unencodable(b) ==
    \/ b.type \in UnsupportedKinds
    \/ b.type \in {"Construction", "Trap", "Workshop", "Furnace", "ScrewPump",
                   "Rollers"} /\ b.subtype = "Custom"

\* C13: the construction classifier returns no token exactly for a tile with
\* no structure or with a stockpile; for every other structure it returns a
\* token on every tile of the footprint; for a kind with no supported
\* encoding, a kind the code does not know and an unrecognized sub-variant
\* the token of the anchor tile is the fallback ~ (followed by the size for the
\* kinds that carry one), never an absent token.
C13_BuildTokenUnlessStockpile ==
    pc = "classify" =>
        LET b == ctx.b IN
        /\ \A t \in DOMAIN toks :
              /\ toks[t] = NULL <=> (b = NoBuilding \/ b.type = "Stockpile")
              /\ (Unencodable(b)
                    /\ (b.type \in AnchoredKinds => t = AnchorOf(b))) =>
                    toks[t] = "~" \o (IF b.type \in NWKinds THEN SizeSuffix(b)
                                      ELSE "")
        /\ pos.y > b.y2 => DOMAIN toks = Footprint(b)

\* a slab has been classified
C13_Witness ==
    /\ pc = "classify"
    /\ ctx.b.type = "Slab"
    /\ DOMAIN toks = Footprint(ctx.b)
    /\ toks[<<1, 1>>] = "~"

(***************************************************************************)
(* The construction classifier on two traps.                               *)
(***************************************************************************)
\* the friction values a track stop is drawn from: the four of the switch,
\* the game's highest setting and a value in between
FrictionChoices == {10, 50, 100, 500, 10000, 50000}

ShiftChoices == {-1, 0, 1}

TrackStops ==
    { [Building("Trap", 0, 0, 0, 0, 0, 0, 0, "TrackStop")
          EXCEPT !.use_dump = d, !.dump_x_shift = xs, !.dump_y_shift = ys,
                 !.friction = f] :
        d \in BOOLEAN, xs \in ShiftChoices, ys \in ShiftChoices,
        f \in FrictionChoices }

OtherTraps ==
    { Building("Trap", 0, 0, 0, 0, 0, 0, 0, sub) :
        sub \in {"StoneFallTrap", "WeaponTrap", "Lever", "PressurePlate",
                 "CageTrap", "NONE"} }

InitTrap ==
    /\ UnitRun("classify_traps")
    /\ ctx \in {[pretty |-> FALSE, b |-> b] : b \in TrackStops \cup OtherTraps}
    /\ trapB \in TrackStops
    /\ pos = Coord(0, 0, 0)
    /\ toks = EmptyMap
    /\ tokA = NULL
    /\ tokB = NULL
    /\ CacheIdle
    /\ _cache = {}

\* get_tile_build on the tile of the trap ctx.b
classify_trap_a ==
    /\ pc = "classify_traps"
    /\ tokA = NULL
    /\ LET r == get_tile_build(pos, ctx, _cache) IN
       /\ tokA' = r.str
       /\ _cache' = r.c
    /\ UNCHANGED <<pc, opts, start, end, processors, pos, pi, ctx, lookups,
                   dir_created, output_files, disk, opened, wi, filenames, ok,
                   toks, trapB, nodes, refs, stale, tokB>>

\* get_tile_build on the tile of the trap trapB
classify_trap_b ==
    /\ pc = "classify_traps"
    /\ tokB = NULL
    /\ LET r == get_tile_build(pos, [ctx EXCEPT !.b = trapB], _cache) IN
       /\ tokB' = r.str
       /\ _cache' = r.c
    /\ UNCHANGED <<pc, opts, start, end, processors, pos, pi, ctx, lookups,
                   dir_created, output_files, disk, opened, wi, filenames, ok,
                   toks, trapB, nodes, refs, stale, tokA>>

NextTrap == classify_trap_a \/ classify_trap_b

SpecTrap == InitTrap /\ [][NextTrap]_vars

\* the number of friction markers in a token
Markers(tok) == CountChar(tok, "a", 1)

\* the number of dump markers in a token
Dumps(tok) == CountChar(tok, "d", 1)

\* both traps are track stops and both are classified
TwoTrackStops ==
    /\ pc = "classify_traps"
    /\ ctx.b.subtype = "TrackStop"
    /\ tokA # NULL
    /\ tokB # NULL

\* C8 as stated: of two track stops, the one with the higher friction has at
\* least as many friction markers in its token.
C8_MoreFrictionMoreMarkers ==
    (TwoTrackStops /\ ctx.b.friction < trapB.friction) =>
        Markers(tokB) >= Markers(tokA)

\* the friction values the switch has a case for
FrictionLadder == {10, 50, 500, 10000}

\* C8 as amended: the friction suffix is cumulative down the ladder 10000,
\* 500, 50, 10: a friction on the ladder yields one marker for every ladder
\* value greater than or equal to it, any other friction yields none; so of
\* two track stops with frictions on the ladder the one with the lower
\* friction has more markers.
C8_LessFrictionMoreMarkers ==
    TwoTrackStops =>
        /\ Markers(tokA) =
              IF ctx.b.friction \in FrictionLadder
              THEN Cardinality({f \in FrictionLadder : f >= ctx.b.friction})
              ELSE 0
        /\ ({ctx.b.friction, trapB.friction} \subseteq FrictionLadder
                /\ ctx.b.friction < trapB.friction) =>
              Markers(tokA) > Markers(tokB)

\* track stops of friction 10 and 10000 are classified
C8_Witness ==
    /\ TwoTrackStops
    /\ ctx.b.friction = 10
    /\ trapB.friction = 10000

\* C9: the token of a track stop with a dump, x-shift 0, y-shift > 0 and
\* friction 500 is CSddaa; the token of any track stop is CS, then dump
\* markers, then friction markers, where equal (use_dump, x-shift, y-shift)
\* give equal dump markers and equal friction gives equal friction markers.
C9_TrackStopToken ==
    TwoTrackStops =>
        /\ (ctx.b.use_dump /\ ctx.b.dump_x_shift = 0 /\ ctx.b.dump_y_shift > 0
                /\ ctx.b.friction = 500) => tokA = "CSddaa"
        /\ tokA = "CS" \o Repeat("d", Dumps(tokA)) \o Repeat("a", Markers(tokA))
        /\ (<<ctx.b.use_dump, ctx.b.dump_x_shift, ctx.b.dump_y_shift>>
                = <<trapB.use_dump, trapB.dump_x_shift, trapB.dump_y_shift>>)
              => Dumps(tokA) = Dumps(tokB)
        /\ ctx.b.friction = trapB.friction => Markers(tokA) = Markers(tokB)
        /\ tokA \in _cache

\* the track stop of the scenario is classified, beside one of another
\* friction and dump configuration
C9_Witness ==
    /\ TwoTrackStops
    /\ ctx.b.use_dump /\ ctx.b.dump_x_shift = 0 /\ ctx.b.dump_y_shift > 0
    /\ ctx.b.friction = 500
    /\ tokA = "CSddaa"
    /\ trapB.friction = 10 /\ ~trapB.use_dump

(***************************************************************************)
(* The token cache and the pointers it returns.                            *)
(***************************************************************************)
MaxAddr == 3

\* the addresses the allocator can give to a node of _cache
Addr == 1..MaxAddr

\* the texts the classifiers intern
Texts == {"CSddaa", "p(2x1)"}

emplace_always_new(n, str, a) == [n |-> (a :> str) @@ n, ref |-> a]

\* _cache.emplace(str).first->c_str(): the node that holds str if there is
\* one, otherwise a new node at the address a the allocator gives; returns
\* the nodes after the call and the pointer
emplace(n, str, a) ==
    IF \E k \in DOMAIN n : n[k] = str
    THEN [n |-> n, ref |-> CHOOSE k \in DOMAIN n : n[k] = str]
    ELSE [n |-> (a :> str) @@ n, ref |-> a]

InitCache ==
    /\ UnitRun("intern")
    /\ pos = UnsetCoord
    /\ ctx = FreshContext(FALSE)
    /\ UnitIdle
    /\ _cache = {}

\* cache(str) with a text: the allocator may give any address that no live
\* node has, one that a node freed by an earlier clear had among them
intern ==
    /\ pc = "intern"
    /\ \E str \in Texts, a \in Addr \ DOMAIN nodes :
          LET e == emplace(nodes, str, a) IN
          /\ nodes' = e.n
          /\ refs' = refs \cup {<<str, e.ref>>}
          /\ _cache' = cache(str, _cache)
    /\ UNCHANGED <<pc, opts, start, end, processors, pos, pi, ctx, lookups,
                   dir_created, output_files, disk, opened, wi, filenames, ok,
                   toks, trapB, tokA, tokB, stale>>

\* cache(NULL): _cache.clear() frees every node
reset ==
    /\ pc = "intern"
    /\ _cache' = cache(NULL, _cache)
    /\ nodes' = [a \in {k \in DOMAIN nodes : nodes[k] \in _cache'} |-> nodes[a]]
    /\ stale' = stale \cup refs
    /\ refs' = {r \in refs : r[1] \in _cache'}
    /\ UNCHANGED <<pc, opts, start, end, processors, pos, pi, ctx, lookups,
                   dir_created, output_files, disk, opened, wi, filenames, ok,
                   toks, trapB, tokA, tokB>>

NextCache == intern \/ reset

SpecCache == InitCache /\ [][NextCache]_vars

\* between two clears equal texts get equal pointers, different texts get
\* different pointers, and the cache has one node per text interned
InternedOnce ==
    /\ \A r1, r2 \in refs : r1[1] = r2[1] <=> r1[2] = r2[2]
    /\ Cardinality(DOMAIN nodes) = Cardinality({r[1] : r \in refs})
    /\ _cache = {r[1] : r \in refs}

\* C15 as stated: between two clears, two calls with equal text return equal
\* pointers and the cache holds one entry per text interned; after a clear,
\* interning a text again returns a pointer equal to none of the pointers
\* returned before the clear.
C15_FreshPointerAfterReset ==
    pc = "intern" =>
        /\ InternedOnce
        /\ \A r \in refs :
              (\E o \in stale : o[1] = r[1]) =>
                  \A o \in stale : o[2] # r[2]

\* C15 as amended: between two clears, two calls with equal text return equal
\* pointers and the cache holds one entry per text interned; a clear leaves
\* the cache without entries, so a text interned after it gets a new entry,
\* and every pointer returned since the clear points to the live entry of
\* its text; nothing is said of how that pointer compares with the pointers
\* returned before the clear.
C15_NewEntryAfterReset ==
    /\ [](pc = "intern" =>
             /\ InternedOnce
             /\ \A r \in refs : r[2] \in DOMAIN nodes /\ nodes[r[2]] = r[1])
    /\ [][reset => (nodes' = EmptyMap /\ _cache' = {} /\ refs' = {})]_vars

\* a text interned before a clear is interned again after it and gets the
\* address it had before
C15_Witness ==
    /\ pc = "intern"
    /\ \E r \in refs : r \in stale
    /\ Cardinality(refs) = 2

====
